---- MODULE Spec2Model ----
(***************************************************************************)
(* Model of rebalance.py (rebalance-lnd): candidate selection, the route   *)
(* augmentation add_channel with its backward amount/fee and expiry        *)
(* passes, the fee-ceiling validator update_route_totals, and main.        *)
(*                                                                         *)
(* Integer arithmetic follows the interpreter the script was written for   *)
(* (`/` on two ints floors); all amounts in the model are non-negative so  *)
(* \div is that division.                                                  *)
(***************************************************************************)
EXTENDS Integers, Sequences, FiniteSets, TLC

VARIABLES
    argv,                  \* sys.argv[1:], <<>> or <<remote_pubkey, amount>>
    pc,                    \* position of main
    channels,              \* ListChannels(active_only) of the node
    edges,                 \* DescribeGraph().edges
    block_height,          \* GetInfo().block_height
    invoices,              \* invoices known to the node (LookupInvoice)
    amount,                \* module global amount
    payment_request_hash,  \* module global payment_request_hash
    total_time_lock,       \* module global total_time_lock
    rebalance_channel,     \* main's local rebalance_channel
    discovered,            \* the routes as QueryRoutes returned them
    routes,                \* the route objects (mutated in place)
    idx,                   \* loop position of add_channel_to_routes
    outcome,               \* per evaluated route: what add_channel did
    lookups,               \* per evaluated route: number of get_policy calls
    result,                \* the list add_channel_to_routes builds
    submissions,           \* SendToRouteSync requests sent
    candidates,            \* what get_rebalance_candidates returned
    calls                  \* number of add_channel calls on routes[1] (SpecReuse)

vars == <<argv, pc, channels, edges, block_height, invoices, amount,
          payment_request_hash, total_time_lock, rebalance_channel, discovered,
          routes, idx, outcome, lookups, result, submissions, candidates, calls>>

----------------------------------------------------------------------------
(* Program constants *)

HIGH_FEES_THRESHOLD_MSAT == 3000000

\* Bounds of the model
MaxHops == 3
MaxCandidates == 2
MaxChannels == 3
MaxCalls == 2

----------------------------------------------------------------------------
(* The node and its surroundings (the external collaborator) *)

\* get_own_pubkey(): GetInfo().identity_pubkey
get_own_pubkey == "me"

\* Python's None
None == [none |-> TRUE]

\* The channels that exist around the node: channel id and its two endpoints
Topology ==
    << [channel_id |-> 1, node1_pub |-> "A", node2_pub |-> "me"],
       [channel_id |-> 2, node1_pub |-> "B", node2_pub |-> "me"],
       [channel_id |-> 3, node1_pub |-> "A", node2_pub |-> "B"],
       [channel_id |-> 4, node1_pub |-> "C", node2_pub |-> "me"],
       [channel_id |-> 5, node1_pub |-> "A", node2_pub |-> "C"] >>

\* Directional policies an edge may advertise
PolicySet ==
    { [fee_base_msat |-> 1000,    fee_rate_milli_msat |-> 1,    time_lock_delta |-> 40],
      [fee_base_msat |-> 1500000, fee_rate_milli_msat |-> 0,    time_lock_delta |-> 144],
      [fee_base_msat |-> 3100000, fee_rate_milli_msat |-> 100,  time_lock_delta |-> 10] }

\* A graph snapshot: every channel of Topology but `missing`, node1 advertising p1
\* and node2 advertising p2
RECURSIVE GraphEdges(_, _, _, _)
GraphEdges(i, missing, p1, p2) ==
    IF i > Len(Topology) THEN << >>
    ELSE (IF Topology[i].channel_id = missing THEN << >>
          ELSE << [channel_id |-> Topology[i].channel_id,
                   node1_pub |-> Topology[i].node1_pub,
                   node2_pub |-> Topology[i].node2_pub,
                   node1_policy |-> p1,
                   node2_policy |-> p2] >>)
         \o GraphEdges(i + 1, missing, p1, p2)

\* Channel ids a snapshot may lack (0: none is lacking)
MissingChoices == {0, 5}

\* sys.argv[2]
Amounts == {1000, 3000}

\* (local_balance, remote_balance) of the node's channel to A
FirstHopBalances == { <<9000, 1000>>, <<6000, 4000>>, <<5500, 4500>> }

\* (local_balance, remote_balance) of the channel to fill, the one to B
RebalanceBalances == { <<2000, 8000>>, <<9000, 1000>> }

Channel(id, pubkey, local, remote) ==
    [chan_id |-> id, remote_pubkey |-> pubkey, capacity |-> local + remote,
     local_balance |-> local, remote_balance |-> remote]

----------------------------------------------------------------------------
(* Candidate selector *)

get_local_ratio_below_half(channel) ==
    2 * channel.local_balance < channel.remote_balance + channel.local_balance

get_remote_surplus(channel) == channel.remote_balance - channel.local_balance

\* list(filter(lambda c: get_local_ratio(c) < 0.5, seq))
RECURSIVE low_local(_)
low_local(seq) ==
    IF seq = << >> THEN << >>
    ELSE (IF get_local_ratio_below_half(Head(seq)) THEN << Head(seq) >> ELSE << >>)
         \o low_local(Tail(seq))

\* sorted(seq, key=get_remote_surplus, reverse=True): a stable sort, descending;
\* an element goes behind every element already placed whose key is >= its own
RECURSIVE InsertDescending(_, _)
InsertDescending(sorted, c) ==
    IF sorted = << >> THEN << c >>
    ELSE IF get_remote_surplus(Head(sorted)) >= get_remote_surplus(c)
         THEN << Head(sorted) >> \o InsertDescending(Tail(sorted), c)
         ELSE << c >> \o sorted

RECURSIVE SortedDescending(_)
SortedDescending(seq) ==
    IF seq = << >> THEN << >>
    ELSE InsertDescending(SortedDescending(SubSeq(seq, 1, Len(seq) - 1)), seq[Len(seq)])

RECURSIVE Reversed(_)
Reversed(seq) ==
    IF seq = << >> THEN << >> ELSE Append(Reversed(Tail(seq)), Head(seq))

\* A stable ascending sort, then reversed: equal keys come out in reverse order
RECURSIVE InsertAscending(_, _)
InsertAscending(sorted, c) ==
    IF sorted = << >> THEN << c >>
    ELSE IF get_remote_surplus(Head(sorted)) <= get_remote_surplus(c)
         THEN << Head(sorted) >> \o InsertAscending(Tail(sorted), c)
         ELSE << c >> \o sorted

RECURSIVE SortedAscending(_)
SortedAscending(seq) ==
    IF seq = << >> THEN << >>
    ELSE InsertAscending(SortedAscending(SubSeq(seq, 1, Len(seq) - 1)), seq[Len(seq)])

get_rebalance_candidates_reversed ==
    Reversed(SortedAscending(low_local(channels)))

get_rebalance_candidates ==
    SortedDescending(low_local(channels))

----------------------------------------------------------------------------
(* Policy lookup and fee calculator *)

\* get_edges(): DescribeGraph().edges
get_edges == edges

Min(S) == CHOOSE x \in S : \A y \in S : x <= y

\* The first edge with that channel id decides; no such edge: the loop ends and
\* the function returns None
get_policy(channel_id, target_pubkey) ==
    LET matching == { i \in 1..Len(get_edges) : get_edges[i].channel_id = channel_id }
    IN  IF matching = {} THEN None
        ELSE LET edge == get_edges[Min(matching)]
             IN  IF edge.node1_pub = target_pubkey
                 THEN edge.node1_policy
                 ELSE edge.node2_policy

\* hasattr(policy, "fee_base_msat") is false for None only
get_fee_base_msat(policy) ==
    IF policy = None THEN 0 ELSE policy.fee_base_msat

\* policy.fee_rate_milli_msat on None: AttributeError
get_fee_msat_raises(channel_id, target_pubkey) ==
    get_policy(channel_id, target_pubkey) = None

get_fee_msat(amount_msat, channel_id, target_pubkey) ==
    LET policy == get_policy(channel_id, target_pubkey)
    IN  get_fee_base_msat(policy)
          + (policy.fee_rate_milli_msat * amount_msat) \div 1000000

----------------------------------------------------------------------------
(* Channel lookups and the two early checks of add_channel *)

get_channels == channels

get_channel(pubkey) ==
    LET matching == { i \in 1..Len(get_channels) : get_channels[i].remote_pubkey = pubkey }
    IN  IF matching = {} THEN None ELSE get_channels[Min(matching)]

low_local_ratio_before_sending(hops) ==
    LET channel == get_channel(hops[1].pub_key)
    IN  2 * channel.local_balance < channel.remote_balance + channel.local_balance

\* float(local) / (remote + local) < 0.5, with remote + local > 0
low_local_ratio_after_sending(hops) ==
    LET channel == get_channel(hops[1].pub_key)
        remote == channel.remote_balance + amount
        local == channel.local_balance - amount
    IN  2 * local < remote + local

is_first_hop(hops, channel) == hops[1].pub_key = channel.remote_pubkey

\* A None channel is dereferenced (AttributeError), or the ratio divides by zero
early_checks_raise(hops, channel) ==
    LET first == get_channel(hops[1].pub_key)
    IN  \/ first = None
        \/ first.remote_balance + first.local_balance = 0
        \/ (~low_local_ratio_after_sending(hops) /\ channel = None)

----------------------------------------------------------------------------
(* Route augmenter *)

\* LookupInvoice(payment_request_hash).cltv_expiry
get_expiry_delta_last_hop ==
    LET matching == { i \in 1..Len(invoices) : invoices[i].r_hash = payment_request_hash }
    IN  invoices[Min(matching)].cltv_expiry

get_current_height == block_height

create_new_hop(amount_msat, channel, expiry) ==
    [chan_capacity |-> channel.capacity,
     fee_msat |-> 0,
     fee |-> 0,
     expiry |-> expiry,
     amt_to_forward_msat |-> amount_msat,
     amt_to_forward |-> amount_msat \div 1000,
     chan_id |-> channel.chan_id,
     pub_key |-> get_own_pubkey]

\* additional_fees += new_fee_msat - fee_msat_before
additional_fee_flat(new_fee_msat, fee_msat_before) == new_fee_msat

additional_fee(new_fee_msat, fee_msat_before) == new_fee_msat - fee_msat_before

\* The loop of update_amounts from hop i down to the first hop. A missing policy
\* raises in get_fee_msat, after the hop's amounts were written.
RECURSIVE update_amounts_from(_, _, _, _)
update_amounts_from(hops, i, additional_fees, n) ==
    IF i = 0 THEN [hops |-> hops, raised |-> FALSE, lookups |-> n]
    ELSE LET hop == hops[i]
             amount_to_forward_msat == hop.amt_to_forward_msat + additional_fees
             h1 == [hop EXCEPT !.amt_to_forward_msat = amount_to_forward_msat,
                               !.amt_to_forward = amount_to_forward_msat \div 1000]
         IN  IF get_fee_msat_raises(hop.chan_id, hop.pub_key)
             THEN [hops |-> [hops EXCEPT ![i] = h1], raised |-> TRUE, lookups |-> n + 1]
             ELSE LET fee_msat_before == hop.fee_msat
                      new_fee_msat == get_fee_msat(amount_to_forward_msat,
                                                   hop.chan_id, hop.pub_key)
                      h2 == [h1 EXCEPT !.fee_msat = new_fee_msat,
                                       !.fee = new_fee_msat \div 1000]
                  IN  update_amounts_from([hops EXCEPT ![i] = h2], i - 1,
                          additional_fees + additional_fee(new_fee_msat, fee_msat_before),
                          n + 1)

update_amounts(hops) == update_amounts_from(hops, Len(hops), 0, 0)

\* total_time_lock += time_lock_delta
next_time_lock_stuck(ttl, time_lock_delta) == ttl

next_time_lock(ttl, time_lock_delta) == ttl + time_lock_delta

\* The loop of update_expiry from hop i down to the first hop; ttl is the module
\* global total_time_lock
RECURSIVE update_expiry_from(_, _, _, _)
update_expiry_from(hops, i, ttl, n) ==
    IF i = 0 THEN [hops |-> hops, total_time_lock |-> ttl, raised |-> FALSE, lookups |-> n]
    ELSE LET hop == hops[i]
             h1 == [hop EXCEPT !.expiry = ttl]
             policy == get_policy(hop.chan_id, hop.pub_key)
         IN  IF policy = None
             THEN [hops |-> [hops EXCEPT ![i] = h1], total_time_lock |-> ttl,
                   raised |-> TRUE, lookups |-> n + 1]
             ELSE update_expiry_from([hops EXCEPT ![i] = h1], i - 1,
                                     next_time_lock(ttl, policy.time_lock_delta), n + 1)

update_expiry(hops, ttl) == update_expiry_from(hops, Len(hops), ttl, 0)

----------------------------------------------------------------------------
(* Route validator *)

RECURSIVE SumFees(_)
SumFees(hops) ==
    IF hops = << >> THEN 0 ELSE Head(hops).fee_msat + SumFees(Tail(hops))

\* total_fee_msat > HIGH_FEES_THRESHOLD_MSAT: return False
fees_too_high_or_equal(total_fee_msat, ceiling) == total_fee_msat >= ceiling

fees_too_high(total_fee_msat, ceiling) == total_fee_msat > ceiling

\* [ok, route]: route is left as it was when the fees are too high
update_route_totals(route, ttl, ceiling) ==
    LET total_fee_msat == SumFees(route.hops)
        total_amount_msat == route.hops[Len(route.hops)].amt_to_forward_msat + total_fee_msat
    IN  IF fees_too_high(total_fee_msat, ceiling)
        THEN [ok |-> FALSE, route |-> route]
        ELSE [ok |-> TRUE,
              route |-> [route EXCEPT !.total_amt_msat = total_amount_msat,
                                      !.total_amt = total_amount_msat \div 1000,
                                      !.total_fees_msat = total_fee_msat,
                                      !.total_fees = total_fee_msat \div 1000,
                                      !.total_time_lock = ttl]]

----------------------------------------------------------------------------
(* add_channel: what it returns ("route", "None" or "raise"), the stage it ended
   in, the route object and the module global total_time_lock after it, and the
   policy lookups it made *)

\* total_time_lock = expiry_last_hop: the seed of the time-lock accumulator
seed_time_lock_kept(ttl, expiry_last_hop) == IF ttl = 0 THEN expiry_last_hop ELSE ttl

seed_time_lock(ttl, expiry_last_hop) == expiry_last_hop

add_channel_with(route, channel, ttl, ceiling) ==
    LET hops == route.hops
        untouched == [ret |-> "None", stage |-> "early", route |-> route,
                      total_time_lock |-> ttl, lookups |-> 0]
    IN  IF early_checks_raise(hops, channel)
        THEN [untouched EXCEPT !.ret = "raise"]
        ELSE IF low_local_ratio_after_sending(hops) THEN untouched
        ELSE IF is_first_hop(hops, channel) THEN untouched
        ELSE
        LET amount_msat == hops[Len(hops)].amt_to_forward_msat
            expiry_last_hop == get_current_height + get_expiry_delta_last_hop
            ttl1 == seed_time_lock(ttl, expiry_last_hop)
            a == update_amounts(hops)
        IN  IF a.raised
            THEN [ret |-> "raise", stage |-> "amounts",
                  route |-> [route EXCEPT !.hops = a.hops],
                  total_time_lock |-> ttl1, lookups |-> a.lookups]
            ELSE
            LET e == update_expiry(a.hops, ttl1)
            IN  IF e.raised
                THEN [ret |-> "raise", stage |-> "expiry",
                      route |-> [route EXCEPT !.hops = e.hops],
                      total_time_lock |-> e.total_time_lock,
                      lookups |-> a.lookups + e.lookups]
                ELSE
                LET extended == Append(e.hops,
                                       create_new_hop(amount_msat, channel, expiry_last_hop))
                    t == update_route_totals([route EXCEPT !.hops = extended],
                                             e.total_time_lock, ceiling)
                IN  [ret |-> IF t.ok THEN "route" ELSE "None",
                     stage |-> "totals",
                     route |-> t.route,
                     total_time_lock |-> e.total_time_lock,
                     lookups |-> a.lookups + e.lookups]

add_channel(route, channel, ttl) ==
    add_channel_with(route, channel, ttl, HIGH_FEES_THRESHOLD_MSAT)

----------------------------------------------------------------------------
(* What QueryRoutes may answer: the loop-free paths of at most MaxHops hops from
   the node to the destination, each hop holding stored amounts and fees *)

Neighbours(node) ==
    { [pub_key |-> Topology[i].node1_pub, chan_id |-> Topology[i].channel_id] :
        i \in { j \in 1..Len(Topology) : Topology[j].node2_pub = node } }
    \cup
    { [pub_key |-> Topology[i].node2_pub, chan_id |-> Topology[i].channel_id] :
        i \in { j \in 1..Len(Topology) : Topology[j].node1_pub = node } }

RECURSIVE PathsFrom(_, _, _, _)
PathsFrom(node, destination, visited, n) ==
    IF n = 0 THEN {}
    ELSE UNION { IF h.pub_key = destination
                 THEN { << h >> }
                 ELSE { << h >> \o p :
                          p \in PathsFrom(h.pub_key, destination,
                                          visited \cup {h.pub_key}, n - 1) } :
                 h \in { x \in Neighbours(node) : x.pub_key \notin visited } }

\* Fee a discovered route stores on each hop but the last
StoredFees == {1000}

\* What the stored amount of the first hop is off by (0: the route is consistent)
Skews == {0, 500}

\* Capacity and expiry margin QueryRoutes stores on a hop
StoredHop(h, amt, fee, height) ==
    [chan_capacity |-> 10000, fee_msat |-> fee, fee |-> fee \div 1000,
     expiry |-> height + 9, amt_to_forward_msat |-> amt,
     amt_to_forward |-> amt \div 1000, chan_id |-> h.chan_id, pub_key |-> h.pub_key]

\* Hops i..Len(path): the last hop forwards amt_msat for no fee, every other hop
\* forwards what the next one forwards plus the next one's fee
RECURSIVE StoredHops(_, _, _, _, _)
StoredHops(path, i, amt_msat, fee, height) ==
    IF i = Len(path) THEN << StoredHop(path[i], amt_msat, 0, height) >>
    ELSE LET tail == StoredHops(path, i + 1, amt_msat, fee, height)
         IN  << StoredHop(path[i], tail[1].amt_to_forward_msat + tail[1].fee_msat,
                          fee, height) >> \o tail

DiscoveredRoute(path, amt, fee, skew, height) ==
    LET consistent == StoredHops(path, 1, amt * 1000, fee, height)
        hops == IF Len(path) = 1 THEN consistent
                ELSE [consistent EXCEPT ![1].amt_to_forward_msat = @ + skew]
    IN  [hops |-> hops,
         total_amt_msat |-> amt * 1000 + SumFees(hops),
         total_amt |-> (amt * 1000 + SumFees(hops)) \div 1000,
         total_fees_msat |-> SumFees(hops),
         total_fees |-> SumFees(hops) \div 1000,
         total_time_lock |-> height + 9]

DiscoveredRoutes(destination, amt, height) ==
    { DiscoveredRoute(path, amt, fee, skew, height) :
        path \in PathsFrom(get_own_pubkey, destination, {get_own_pubkey}, MaxHops),
        fee \in StoredFees, skew \in Skews }

RECURSIVE SeqsUpTo(_, _)
SeqsUpTo(S, n) ==
    IF n = 0 THEN { << >> }
    ELSE LET shorter == SeqsUpTo(S, n - 1)
         IN  shorter \cup { Append(q, x) : q \in { y \in shorter : Len(y) = n - 1 }, x \in S }

\* (local_balance, remote_balance) of the channels list_candidates ranks
BalancePairs == { <<20, 80>>, <<40, 60>>, <<60, 40>>, <<50, 50>>, <<30, 90>>, <<10, 30>> }

\* The active channels of a node, the i-th with channel id i
ChannelLists ==
    { [i \in 1..Len(q) |-> Channel(i, "A", q[i][1], q[i][2])] :
        q \in SeqsUpTo(BalancePairs, MaxChannels) }

----------------------------------------------------------------------------
(* The state before main runs *)

\* An invoice the node holds from before
OldInvoice == [r_hash |-> [r_hash_str |-> 1], cltv_expiry |-> 9, memo |-> "old"]

\* The module globals as the script sets them, and main's locals not yet set
InitGlobals ==
    /\ pc = "start"
    /\ invoices = << OldInvoice >>
    /\ amount = 10000
    /\ payment_request_hash = None
    /\ total_time_lock = 0
    /\ rebalance_channel = None
    /\ discovered = << >>
    /\ routes = << >>
    /\ idx = 0
    /\ outcome = << >>
    /\ lookups = << >>
    /\ result = << >>
    /\ submissions = << >>
    /\ candidates = << >>
    /\ calls = 0

Heights == {1000}

\* The node as a rebalance attempt finds it
RebalanceNode ==
    /\ block_height \in Heights
    /\ \E b \in FirstHopBalances, t \in RebalanceBalances :
         channels = << Channel(1, "A", b[1], b[2]),
                       Channel(2, "B", t[1], t[2]),
                       Channel(4, "C", 9000, 1000) >>
    /\ \E missing \in MissingChoices, p1 \in PolicySet, p2 \in PolicySet :
         edges = GraphEdges(1, missing, p1, p2)

\* No arguments: list the candidates
InitList ==
    /\ argv = << >>
    /\ block_height \in Heights
    /\ channels \in ChannelLists
    /\ edges = GraphEdges(1, 0, CHOOSE p \in PolicySet : p.time_lock_delta = 40,
                          CHOOSE p \in PolicySet : p.time_lock_delta = 40)
    /\ InitGlobals

\* Two arguments: pubkey of the channel to fill, amount
InitRebalance ==
    /\ \E a \in Amounts : argv = << "B", a >>
    /\ RebalanceNode
    /\ InitGlobals

Init == InitList \/ InitRebalance

----------------------------------------------------------------------------
(* main *)

\* len(sys.argv) != 3: list_candidates(); sys.exit()
ListCandidates ==
    /\ pc = "start"
    /\ Len(argv) # 2
    /\ candidates' = get_rebalance_candidates
    /\ pc' = "exit"
    /\ UNCHANGED <<argv, channels, edges, block_height, invoices, amount,
                   payment_request_hash, total_time_lock, rebalance_channel,
                   discovered, routes, idx, outcome, lookups, result, submissions,
                   calls>>

\* amount, rebalance_channel and routes = get_routes(remote_pubkey)
GetRoutes ==
    /\ pc = "start"
    /\ Len(argv) = 2
    /\ amount' = argv[2]
    /\ rebalance_channel' = get_channel(argv[1])
    /\ \E rs \in SeqsUpTo(DiscoveredRoutes(argv[1], argv[2], block_height), MaxCandidates) :
         /\ routes' = rs
         /\ discovered' = rs
    /\ pc' = "invoice"
    /\ UNCHANGED <<argv, channels, edges, block_height, invoices,
                   payment_request_hash, total_time_lock, idx, outcome, lookups,
                   result, submissions, candidates, calls>>

\* cltv_expiry the node gives a new invoice
CltvExpiries == {144}

\* payment_request_hash = generate_invoice(remote_pubkey): a fresh payment hash
GenerateInvoice ==
    /\ pc = "invoice"
    /\ \E cltv \in CltvExpiries :
         LET hash == [r_hash_str |-> Len(invoices) + 1]
         IN  /\ invoices' = Append(invoices,
                                   [r_hash |-> hash, cltv_expiry |-> cltv,
                                    memo |-> "Rebalance of channel to " \o argv[1]])
             /\ payment_request_hash' = hash
    /\ pc' = "eval"
    /\ idx' = 1
    /\ UNCHANGED <<argv, channels, edges, block_height, amount, total_time_lock,
                   rebalance_channel, discovered, routes, outcome, lookups, result,
                   submissions, candidates, calls>>

\* One turn of the loop of add_channel_to_routes; an exception of add_channel is
\* caught nowhere and ends the process
AddChannelToRoute ==
    /\ pc = "eval"
    /\ idx <= Len(routes)
    /\ LET r == add_channel(routes[idx], rebalance_channel, total_time_lock)
       IN  /\ routes' = [routes EXCEPT ![idx] = r.route]
           /\ total_time_lock' = r.total_time_lock
           /\ outcome' = Append(outcome, [ret |-> r.ret, stage |-> r.stage])
           /\ lookups' = Append(lookups, r.lookups)
           /\ result' = IF r.ret = "route" THEN Append(result, r.route) ELSE result
           /\ pc' = IF r.ret = "raise" THEN "crashed" ELSE "eval"
    /\ idx' = idx + 1
    /\ UNCHANGED <<argv, channels, edges, block_height, invoices, amount,
                   payment_request_hash, rebalance_channel, discovered, submissions,
                   candidates, calls>>

\* len(modified_routes) == 0: "Could not find any suitable route"
NoSuitableRoute ==
    /\ pc = "eval"
    /\ idx > Len(routes)
    /\ Len(result) = 0
    /\ pc' = "done"
    /\ UNCHANGED <<argv, channels, edges, block_height, invoices, amount,
                   payment_request_hash, total_time_lock, rebalance_channel,
                   discovered, routes, idx, outcome, lookups, result, submissions,
                   candidates, calls>>

\* rebalance(modified_routes): one SendToRouteSync request
Rebalance ==
    /\ pc = "eval"
    /\ idx > Len(routes)
    /\ Len(result) # 0
    /\ submissions' = Append(submissions,
                             [payment_hash_string |-> payment_request_hash,
                              routes |-> result])
    /\ pc' = "done"
    /\ UNCHANGED <<argv, channels, edges, block_height, invoices, amount,
                   payment_request_hash, total_time_lock, rebalance_channel,
                   discovered, routes, idx, outcome, lookups, result, candidates,
                   calls>>

Next ==
    \/ ListCandidates
    \/ GetRoutes
    \/ GenerateInvoice
    \/ AddChannelToRoute
    \/ NoSuitableRoute
    \/ Rebalance

Spec == Init /\ [][Next]_vars

----------------------------------------------------------------------------
(* add_channel called by hand, again and again, on one route object: the node
   holds the invoice of the attempt and the globals are set as main sets them *)

InitReuse ==
    /\ \E a \in Amounts :
         /\ argv = << "B", a >>
         /\ amount = a
    /\ RebalanceNode
    /\ pc = "api"
    /\ invoices = << OldInvoice,
                     [r_hash |-> [r_hash_str |-> 2], cltv_expiry |-> 144,
                      memo |-> "Rebalance of channel to B"] >>
    /\ payment_request_hash = [r_hash_str |-> 2]
    /\ total_time_lock = 0
    /\ rebalance_channel = get_channel("B")
    /\ \E r \in DiscoveredRoutes("B", amount, block_height) :
         /\ routes = << r >>
         /\ discovered = << r >>
    /\ idx = 1
    /\ outcome = << >>
    /\ lookups = << >>
    /\ result = << >>
    /\ submissions = << >>
    /\ candidates = << >>
    /\ calls = 0

CallAddChannel ==
    /\ pc = "api"
    /\ calls < MaxCalls
    /\ LET r == add_channel(routes[1], rebalance_channel, total_time_lock)
       IN  /\ routes' = << r.route >>
           /\ total_time_lock' = r.total_time_lock
           /\ outcome' = Append(outcome, [ret |-> r.ret, stage |-> r.stage])
           /\ lookups' = Append(lookups, r.lookups)
           /\ result' = IF r.ret = "route" THEN Append(result, r.route) ELSE result
           /\ pc' = IF r.ret = "raise" THEN "raised" ELSE "api"
    /\ calls' = calls + 1
    /\ UNCHANGED <<argv, channels, edges, block_height, invoices, amount,
                   payment_request_hash, rebalance_channel, discovered, idx,
                   submissions, candidates>>

NextReuse == CallAddChannel

SpecReuse == InitReuse /\ [][NextReuse]_vars

----------------------------------------------------------------------------
(* Properties *)

Evaluated == 1..Len(outcome)

Accepted(i) == outcome[i].ret = "route"

policy(hop) == get_policy(hop.chan_id, hop.pub_key)

\* hop[k].amt_to_forward_msat = hop[k+1].amt_to_forward_msat + hop[k+1].fee_msat
AmountsConsistent(hops) ==
    \A k \in 1..(Len(hops) - 1) :
        hops[k].amt_to_forward_msat
            = hops[k + 1].amt_to_forward_msat + hops[k + 1].fee_msat

\* C1 as claimed: every route add_channel accepts, whatever amounts and fees the
\* discovered route stored, has each hop forward what the next hop forwards plus
\* the next hop's fee.
C1_OnionAmountsAnyRoute ==
    \A i \in Evaluated : Accepted(i) => AmountsConsistent(routes[i].hops)

\* C1 as amended: every route add_channel accepts whose discovered hops already
\* satisfied the relation satisfies it after augmentation, the pair of the
\* original last hop and the appended hop included; the appended hop forwards
\* what the original last hop forwards and charges no fee.
C1_OnionAmounts ==
    \A i \in Evaluated :
        (Accepted(i) /\ AmountsConsistent(discovered[i].hops))
            => LET hops == routes[i].hops
                   n == Len(discovered[i].hops)
               IN  /\ Len(hops) = n + 1
                   /\ AmountsConsistent(hops)
                   /\ hops[n + 1].fee_msat = 0
                   /\ hops[n + 1].amt_to_forward_msat
                        = discovered[i].hops[n].amt_to_forward_msat

\* An accepted route of three discovered hops, consistent as discovered, whose
\* recomputed fees differ from the stored ones
C1_Witness ==
    \E i \in Evaluated :
        /\ Accepted(i)
        /\ AmountsConsistent(discovered[i].hops)
        /\ Len(discovered[i].hops) = 3
        /\ \A k \in 1..3 : routes[i].hops[k].fee_msat # discovered[i].hops[k].fee_msat
        /\ routes[i].hops[1].amt_to_forward_msat
             # discovered[i].hops[1].amt_to_forward_msat

C3_PolicyDirection ==
    \A i \in 1..Len(edges) :
        /\ get_policy(edges[i].channel_id, edges[i].node1_pub) = edges[i].node2_policy
        /\ get_policy(edges[i].channel_id, edges[i].node2_pub) = edges[i].node1_policy

\* Hops of the rebalance channel that end at the node itself
TerminalHops(hops) ==
    { k \in 1..Len(hops) : /\ hops[k].chan_id = rebalance_channel.chan_id
                           /\ hops[k].pub_key = get_own_pubkey }

\* C4 as claimed: add_channel called again on a route it accepted rejects it, and no
\* route holds the hop of the rebalance channel twice.
C4_NoDoubleAppend ==
    /\ \A k \in 2..Len(outcome) : outcome[k - 1].ret = "route" => outcome[k].ret = "None"
    /\ Cardinality(TerminalHops(routes[1].hops)) <= 1

\* A hop of the route names a channel the graph snapshot has no edge for
UnknownChannel(route) ==
    \E k \in 1..Len(route.hops) :
        \A j \in 1..Len(edges) : edges[j].channel_id # route.hops[k].chan_id

\* C5 as claimed: a candidate naming a channel without an edge is rejected as one
\* route, and the process goes on.
C5_PolicyNotFoundSkipped ==
    /\ pc # "crashed"
    /\ \A i \in Evaluated : UnknownChannel(discovered[i]) => outcome[i].ret = "None"

\* Ceilings around the configured one
Ceilings == { HIGH_FEES_THRESHOLD_MSAT - 1, HIGH_FEES_THRESHOLD_MSAT,
              HIGH_FEES_THRESHOLD_MSAT + 1, HIGH_FEES_THRESHOLD_MSAT + 100000,
              1000, 2001 }

\* C6: a route that reaches the validator is accepted exactly when its hop fees sum
\* to at most the ceiling, an accepted route carries that sum as total_fees_msat,
\* and under any two ceilings c1 <= c2 what c1 accepts c2 accepts (so what c2
\* rejects c1 rejects).
C6_FeeCeiling ==
    \A i \in Evaluated :
        outcome[i].stage = "totals"
            => LET sum == SumFees(routes[i].hops)
                   AcceptedUnder(c) ==
                       update_route_totals(routes[i], routes[i].total_time_lock, c).ok
               IN  /\ Accepted(i) <=> sum <= HIGH_FEES_THRESHOLD_MSAT
                   /\ Accepted(i) => /\ routes[i].total_fees_msat = sum
                                     /\ routes[i].total_fees_msat <= HIGH_FEES_THRESHOLD_MSAT
                   /\ \A c \in Ceilings : AcceptedUnder(c) <=> sum <= c
                   /\ \A c1 \in Ceilings, c2 \in Ceilings :
                          (c1 <= c2 /\ AcceptedUnder(c1)) => AcceptedUnder(c2)

\* One route accepted with fees exactly at the ceiling, another rejected above it
C6_Witness ==
    \E i \in Evaluated, j \in Evaluated :
        /\ Accepted(i)
        /\ SumFees(routes[i].hops) = HIGH_FEES_THRESHOLD_MSAT
        /\ outcome[j].stage = "totals"
        /\ ~Accepted(j)
        /\ SumFees(routes[j].hops) > HIGH_FEES_THRESHOLD_MSAT

LowLocal(c) == 2 * c.local_balance < c.local_balance + c.remote_balance

\* (local_balance - amount) / (local_balance + remote_balance) < 0.5 for the channel
\* to the first hop's node
LowRatio(route) ==
    LET channel == get_channel(route.hops[1].pub_key)
    IN  2 * (channel.local_balance - amount)
            < channel.local_balance + channel.remote_balance

FirstHopIsCounterparty(route) ==
    route.hops[1].pub_key = rebalance_channel.remote_pubkey

\* C7: a route whose first-hop channel would fall below ratio 0.5, or whose first hop
\* is the rebalance channel's counterparty, is answered None with the route object
\* exactly as discovered and without a policy lookup.
C7_EarlyRejection ==
    \A i \in Evaluated :
        (LowRatio(discovered[i]) \/ FirstHopIsCounterparty(discovered[i]))
            => /\ outcome[i].ret = "None"
               /\ outcome[i].stage = "early"
               /\ routes[i] = discovered[i]
               /\ lookups[i] = 0

\* Both early rejections happened in one attempt: a first-hop channel above ratio
\* 0.5 that the amount would bring below it, and a first hop that is the counterparty
C7_Witness ==
    \E i \in Evaluated, j \in Evaluated :
        /\ LowRatio(discovered[i]) /\ ~FirstHopIsCounterparty(discovered[i])
        /\ ~LowLocal(get_channel(discovered[i].hops[1].pub_key))
        /\ Len(discovered[i].hops) > 1
        /\ FirstHopIsCounterparty(discovered[j]) /\ ~LowRatio(discovered[j])

\* The routes add_channel accepted, in candidate order
RECURSIVE AcceptedRoutes(_)
AcceptedRoutes(i) ==
    IF i = 0 THEN << >>
    ELSE AcceptedRoutes(i - 1) \o (IF Accepted(i) THEN << routes[i] >> ELSE << >>)

\* C8 as claimed: nothing is submitted before all candidates are evaluated; an
\* attempt that ended with every candidate rejected submitted nothing; any other
\* attempt that ended made exactly one submission, of the accepted routes in
\* candidate order with the payment hash of the invoice this attempt created.
C8_SubmissionDiscipline ==
    /\ pc \notin {"done", "crashed"} => submissions = << >>
    /\ pc \in {"done", "crashed"}
         => IF \A i \in Evaluated : ~Accepted(i)
            THEN submissions = << >>
            ELSE /\ Len(submissions) = 1
                 /\ Len(outcome) = Len(discovered)
                 /\ submissions[1].routes = AcceptedRoutes(Len(outcome))
                 /\ submissions[1].payment_hash_string = invoices[Len(invoices)].r_hash
                 /\ submissions[1].payment_hash_string # OldInvoice.r_hash

\* C9: list_candidates ranks exactly the channels of local ratio below 0.5, by
\* remote surplus descending, equal surplus in input order.
C9_CandidateSelection ==
    pc = "exit"
        => /\ \A i \in 1..Len(channels) :
                 LowLocal(channels[i])
                     <=> \E k \in 1..Len(candidates) : candidates[k] = channels[i]
           /\ Len(candidates) = Cardinality({ i \in 1..Len(channels) : LowLocal(channels[i]) })
           /\ \A k \in 1..(Len(candidates) - 1) :
                 \/ get_remote_surplus(candidates[k]) > get_remote_surplus(candidates[k + 1])
                 \/ /\ get_remote_surplus(candidates[k]) = get_remote_surplus(candidates[k + 1])
                    /\ candidates[k].chan_id < candidates[k + 1].chan_id
           /\ channels = << Channel(1, "A", 20, 80), Channel(2, "A", 40, 60),
                            Channel(3, "A", 60, 40) >>
                 => candidates = << Channel(1, "A", 20, 80), Channel(2, "A", 40, 60) >>

\* Three channels listed: one excluded, two of equal surplus ranked, the later of
\* the input behind the earlier
C9_Witness ==
    /\ pc = "exit"
    /\ Len(channels) = 3
    /\ Len(candidates) = 2
    /\ get_remote_surplus(candidates[1]) = get_remote_surplus(candidates[2])
    /\ candidates[1] # candidates[2]
    /\ candidates[1].local_balance # candidates[2].local_balance

\* C10: every accepted route is what add_channel makes of the discovered route
\* alone, from the module's initial total_time_lock; its last discovered hop expires
\* at current_height + invoice_cltv_delta and its total_time_lock is its first hop's
\* expiry plus its first hop's policy delta.
C10_TimeLockIsolation ==
    \A i \in Evaluated :
        Accepted(i)
            => LET alone == add_channel(discovered[i], rebalance_channel, 0)
                   hops == routes[i].hops
               IN  /\ alone.ret = "route"
                   /\ routes[i] = alone.route
                   /\ hops[Len(hops) - 1].expiry
                        = get_current_height + get_expiry_delta_last_hop
                   /\ routes[i].total_time_lock
                        = hops[1].expiry + policy(hops[1]).time_lock_delta

\* A route accepted after a candidate whose fees were too high had left the
\* accumulator advanced
C10_Witness ==
    \E i \in Evaluated :
        /\ i > 1
        /\ Accepted(i)
        /\ outcome[i - 1].stage = "totals"
        /\ ~Accepted(i - 1)
        /\ routes[i].total_time_lock > get_current_height + get_expiry_delta_last_hop

====
